---- MODULE Spec2Model ----
(***************************************************************************)
(* A model of the bet-data pipeline of wanna-bet:                          *)
(*   website/src/services/services.ts   raw fetchers, formatBet and the    *)
(*                                      aggregate fetchers                 *)
(*   bot  retrieveTxn                   the retrieve-transaction endpoint  *)
(* Text is a sequence of one-character strings, so that parsing and        *)
(* formatting are computed character by character as the code does.        *)
(* Unbounded integers (bigint) are big-endian bit sequences without        *)
(* leading zeros; <<>> is zero.                                            *)
(***************************************************************************)
EXTENDS Integers, Sequences, FiniteSets, TLC

Undefined == "undefined"

(***************************************************************************)
(* Sequences and unbounded naturals                                        *)
(***************************************************************************)
Rev(s) == [i \in 1..Len(s) |-> s[Len(s) + 1 - i]]

RECURSIVE StripLeading(_, _)
StripLeading(s, z) ==
  IF s # <<>> /\ Head(s) = z THEN StripLeading(Tail(s), z) ELSE s

StripTrailing(s, z) == Rev(StripLeading(Rev(s), z))

RECURSIVE MulLE(_, _, _)
MulLE(le, k, carry) ==
  IF le = <<>>
  THEN IF carry = 0 THEN <<>> ELSE <<carry % 2>> \o MulLE(<<>>, k, carry \div 2)
  ELSE LET t == Head(le) * k + carry
       IN  <<t % 2>> \o MulLE(Tail(le), k, t \div 2)

\* b * k + c for a small multiplier k and a small addend c
NatMulAdd(b, k, c) == StripLeading(Rev(MulLE(Rev(b), k, c)), 0)

RECURSIVE NatFromDigits(_, _)
NatFromDigits(ds, acc) ==
  IF ds = <<>> \/ Len(acc) < 0 THEN acc
  ELSE NatFromDigits(Tail(ds), NatMulAdd(acc, 10, Head(ds)))

NatOfInt(n) == NatMulAdd(<<>>, 1, n)

NatLess(a, b) ==
  \/ Len(a) < Len(b)
  \/ /\ Len(a) = Len(b)
     /\ \E i \in 1..Len(a) : a[i] < b[i] /\ \A j \in 1..(i - 1) : a[j] = b[j]

NatLeq(a, b) == a = b \/ NatLess(a, b)

RECURSIVE SubLE(_, _, _)
SubLE(a, b, borrow) ==
  IF a = <<>> THEN <<>>
  ELSE LET bi == IF b = <<>> THEN 0 ELSE Head(b)
           t  == Head(a) - bi - borrow
       IN  <<t % 2>> \o SubLE(Tail(a), IF b = <<>> THEN <<>> ELSE Tail(b),
                              IF t < 0 THEN 1 ELSE 0)

\* |a - b|
NatDist(a, b) ==
  IF NatLess(a, b) THEN StripLeading(Rev(SubLE(Rev(b), Rev(a), 0)), 0)
  ELSE StripLeading(Rev(SubLE(Rev(a), Rev(b), 0)), 0)

\* a * 2^n
NatShl(a, n) == IF a = <<>> THEN <<>> ELSE a \o [i \in 1..n |-> 0]

RECURSIVE Pow10(_)
Pow10(n) == IF n = 0 THEN 1 ELSE 10 * Pow10(n - 1)

(***************************************************************************)
(* Text                                                                    *)
(***************************************************************************)
DigitChars == <<"0", "1", "2", "3", "4", "5", "6", "7", "8", "9">>

IsDigit(c) == \E i \in 1..10 : DigitChars[i] = c

DigitVal(c) == (CHOOSE i \in 1..10 : DigitChars[i] = c) - 1

DigitChar(d) == DigitChars[d + 1]

(***************************************************************************)
(* BigInt(text), bigint.toString(), viem formatUnits, Number(text)         *)
(***************************************************************************)
\* The significand width of a JavaScript number (IEEE-754 binary64)
SignificandBits == 53

\* formatBet's hardcoded token decimals
TokenDecimals == 6

\* BigInt(string): the empty string is 0n, decimal digits parse to their
\* value, any other character (such as ".") is a SyntaxError.
BigIntOf(text) ==
  IF \A i \in 1..Len(text) : IsDigit(text[i])
  THEN [ok |-> TRUE,
        v  |-> NatFromDigits([i \in 1..Len(text) |-> DigitVal(text[i])], <<>>)]
  ELSE [ok |-> FALSE, v |-> <<>>]

\* One step of binary long division by the small divisor D
RECURSIVE DivBits(_, _, _, _)
DivBits(bits, D, r, q) ==
  IF bits = <<>> \/ r < 0 \/ Len(q) < 0 THEN [q |-> q, r |-> r]
  ELSE LET t == 2 * r + Head(bits)
       IN  DivBits(Tail(bits), D, t % D, Append(q, t \div D))

RECURSIVE NatToDigits(_, _)
NatToDigits(b, acc) ==
  IF b = <<>> \/ Len(acc) < 0 THEN acc
  ELSE LET d == DivBits(b, 10, 0, <<>>)
       IN  NatToDigits(StripLeading(d.q, 0), <<DigitChar(d.r)>> \o acc)

\* bigint.toString()
BigIntToString(b) == IF b = <<>> THEN <<"0">> ELSE NatToDigits(b, <<>>)

\* String.prototype.padStart(n, "0")
PadStart(text, n) ==
  IF Len(text) >= n THEN text ELSE [i \in 1..(n - Len(text)) |-> "0"] \o text

\* A formatUnits that does not pad a short value with zeros
formatUnits_noPad(value, decimals) ==
  LET display  == BigIntToString(value)
      short    == Len(display) <= decimals
      integer  == IF short THEN <<>> ELSE SubSeq(display, 1, Len(display) - decimals)
      fraction == StripTrailing(
                    IF short THEN display
                    ELSE SubSeq(display, Len(display) - decimals + 1, Len(display)), "0")
  IN  (IF integer = <<>> THEN <<"0">> ELSE integer)
        \o (IF fraction = <<>> THEN <<>> ELSE <<".">> \o fraction)

\* viem formatUnits(value, decimals) for a non-negative value
formatUnits(value, decimals) ==
  LET display  == PadStart(BigIntToString(value), decimals)
      integer  == SubSeq(display, 1, Len(display) - decimals)
      fraction == StripTrailing(
                    SubSeq(display, Len(display) - decimals + 1, Len(display)), "0")
  IN  (IF integer = <<>> THEN <<"0">> ELSE integer)
        \o (IF fraction = <<>> THEN <<>> ELSE <<".">> \o fraction)

\* A JavaScript number: m * 2^e with m an odd significand of at most
\* SignificandBits bits (m = <<>>, e = 0 is zero), or NaN.
DoubleZero == [nan |-> FALSE, m |-> <<>>, e |-> 0]
DoubleNaN == [nan |-> TRUE, m |-> <<>>, e |-> 0]

RECURSIVE FracBits(_, _, _, _)
FracBits(q, r, D, n) ==
  IF r = 0 \/ Len(q) >= SignificandBits + 1 THEN [q |-> q, r |-> r, n |-> n]
  ELSE LET t == 2 * r
       IN  FracBits(IF q = <<>> /\ t \div D = 0 THEN <<>> ELSE Append(q, t \div D),
                    t % D, D, n + 1)

\* Round the value B * 2^(-n) (+ a non-zero rest below the last bit when
\* sticky) to the nearest number, ties to even.
RoundToDouble(B, n, sticky) ==
  IF B = <<>> THEN DoubleZero
  ELSE IF Len(B) <= SignificandBits
  THEN LET m == StripTrailing(B, 0)
       IN  [nan |-> FALSE, m |-> m, e |-> (Len(B) - Len(m)) - n]
  ELSE LET keep  == SubSeq(B, 1, SignificandBits)
           guard == B[SignificandBits + 1]
           rest  == SubSeq(B, SignificandBits + 2, Len(B))
           st    == sticky \/ \E i \in 1..Len(rest) : rest[i] = 1
           up    == guard = 1 /\ (st \/ keep[SignificandBits] = 1)
           r     == IF up THEN NatMulAdd(keep, 1, 1) ELSE keep
           m     == StripTrailing(r, 0)
       IN  [nan |-> FALSE, m |-> m,
            e |-> (Len(r) - Len(m)) + (Len(B) - SignificandBits) - n]

\* Number(string) for a decimal literal digits[.digits]; other text is NaN.
NumberOf(text) ==
  LET dots == {i \in 1..Len(text) : text[i] = "."}
      dot  == IF dots = {} THEN Len(text) + 1 ELSE CHOOSE i \in dots : TRUE
      ip   == SubSeq(text, 1, dot - 1)
      fp   == SubSeq(text, dot + 1, Len(text))
      ds   == ip \o fp
  IN  IF Cardinality(dots) > 1 \/ ds = <<>> \/ \E i \in 1..Len(ds) : ~IsDigit(ds[i])
      THEN DoubleNaN
      ELSE LET N  == NatFromDigits([i \in 1..Len(ds) |-> DigitVal(ds[i])], <<>>)
               D  == Pow10(Len(fp))
               id == DivBits(N, D, 0, <<>>)
               fb == FracBits(StripLeading(id.q, 0), id.r, D, 0)
           IN  RoundToDouble(fb.q, fb.n, fb.r # 0)

\* d * k for a number d and a small integer k, rounded as a number
DoubleTimes(d, k) ==
  IF d.nan THEN DoubleNaN
  ELSE IF d.e >= 0 THEN RoundToDouble(NatShl(NatMulAdd(d.m, k, 0), d.e), 0, FALSE)
  ELSE RoundToDouble(NatMulAdd(d.m, k, 0), 0 - d.e, FALSE)

(***************************************************************************)
(* JSON values and promise outcomes                                        *)
(***************************************************************************)
\* JavaScript undefined and null where an object is expected
JUndef == [isUndefined |-> TRUE]
JNull == [isNull |-> TRUE]

Nullish(v) == v = JUndef \/ v = JNull

\* o.f on an object o: undefined when o has no property f
Prop(o, f) == IF f \in DOMAIN o THEN o[f] ELSE JUndef

Pending == [st |-> "pending"]
Resolved(v) == [st |-> "resolved", v |-> v]
Rejected(m) == [st |-> "rejected", msg |-> m]

FirstRejected(outs) ==
  CHOOSE i \in DOMAIN outs :
    outs[i].st = "rejected" /\ \A j \in DOMAIN outs : j < i => outs[j].st # "rejected"

\* An allSettled-like join that drops the rejected entries
PromiseAll_dropRejected(outs) ==
  IF \E i \in DOMAIN outs : outs[i].st = "pending" THEN Pending
  ELSE LET RECURSIVE Keep(_)
           Keep(i) == IF i > Len(outs) THEN <<>>
                      ELSE (IF outs[i].st = "resolved" THEN <<outs[i].v>> ELSE <<>>)
                             \o Keep(i + 1)
       IN  Resolved(Keep(1))

\* Promise.all over an array of promises: rejects as soon as one entry is
\* rejected, resolves with the values in array order once all are resolved.
PromiseAll(outs) ==
  IF \E i \in DOMAIN outs : outs[i].st = "rejected"
  THEN Rejected(outs[FirstRejected(outs)].msg)
  ELSE IF \A i \in DOMAIN outs : outs[i].st = "resolved"
  THEN Resolved([i \in DOMAIN outs |-> outs[i].v])
  ELSE Pending

(***************************************************************************)
(* The world outside the repository: the indexed bets, the contracts and   *)
(* the alias resolver                                                      *)
(***************************************************************************)
Contracts == <<"0xC1", "0xC2", "0xC3", "0xC4", "0xC5", "0xC6", "0xC7">>
Creators == <<"0xA1", "0xA2", "0xA3", "0xA4", "0xA5", "0xA6", "0xA7">>
Participants == <<"0xB1", "0xB2", "0xB3", "0xB4", "0xB5", "0xB6", "0xB7">>
Judges == <<"0xD1", "0xD2", "0xD3", "0xD4", "0xD5", "0xD6", "0xD7">>

Amounts ==
  << <<"1", "5", "0", "0", "0", "0", "0">>,
     <<"1", "0", "0", "0", "0", "0">>,
     <<"0">>,
     <<"1">>,
     <<"1", "5", "6", "2", "5">>,
     <<"2", "5", "0", "0", "0", "0", "0", "0">>,
     <<"9", "9", "9", "9", "9", "9">> >>

\* A RawBet as the indexing API returns it (lines 27-38): every field is text
RawBetOf(n) ==
  [id              |-> <<DigitChar(n)>>,
   contractAddress |-> Contracts[n],
   creator         |-> Creators[n],
   participant     |-> Participants[n],
   amount          |-> Amounts[n],
   token           |-> "0xUSDC",
   message         |-> "message",
   judge           |-> Judges[n],
   createdTime     |-> <<"1", "6", "9", "0", "0", "0", "0", "0", "0", DigitChar(n)>>,
   validUntil      |-> <<"1", "7", "0", "0", "0", "0", "0", "0", "0", DigitChar(n)>>]

\* A record whose amount is not an integer in decimal text
BadAmountBet == [RawBetOf(1) EXCEPT !.amount = <<"1", ".", "5">>]

\* The bets of the index, in the order the API lists them
Feed == [n \in DOMAIN Contracts |-> RawBetOf(n)]

\* The records formatBet is called with directly
FormatInputs == {RawBetOf(n) : n \in DOMAIN Contracts} \cup {BadAmountBet}

BetStatus == {"expired", "pending", "accepted", "declined", "settled"}

\* One entry of readContracts' result (allowFailure is left at its default):
\* a read that succeeded carries its result, a read that failed carries none.
ReadOk(v) == [status |-> "success", result |-> v]
ReadFailed == [status |-> "failure", result |-> Undefined]

\* What the three view functions of the contract at addr answer
ChainReads(addr) ==
  CASE addr = "0xC1" -> <<ReadOk("pending"), ReadFailed, ReadFailed>>
    [] addr = "0xC2" -> <<ReadOk("settled"), ReadOk("0xA2"), ReadOk("creator was right")>>
    [] addr = "0xC3" -> <<ReadFailed, ReadOk("0x0"), ReadOk("")>>
    [] addr = "0xC4" -> <<ReadOk("accepted"), ReadOk("0x0"), ReadOk("")>>
    [] addr = "0xC5" -> <<ReadOk("declined"), ReadOk("0x0"), ReadFailed>>
    [] addr = "0xC6" -> <<ReadOk("expired"), ReadFailed, ReadOk("")>>
    [] OTHER         -> <<ReadFailed, ReadFailed, ReadFailed>>

\* The display name the alias resolver holds for an address
AliasOf(addr) == <<"alias of", addr>>

PageInfos ==
  {[hasPreviousPage |-> FALSE, startCursor |-> "c0", hasNextPage |-> TRUE, endCursor |-> "c1"],
   [hasPreviousPage |-> TRUE, startCursor |-> "c1", hasNextPage |-> FALSE, endCursor |-> "c2"]}

Cursors == {"", "c1"}

\* The page argument of the paginated fetchers: absent, or an afterCursor
PageArgs == {JUndef} \cup {[afterCursor |-> c] : c \in Cursors}

\* The longest page the indexing API returns
MaxItems == 2

\* The item lists of the pages: the first n bets of the feed
ItemLists == {SubSeq(Feed, 1, n) : n \in 0..MaxItems}

\* The values of data.bets in a body
BetsValues ==
  {JNull, [pageInfo |-> CHOOSE p \in PageInfos : TRUE]}
    \cup {[items |-> q] : q \in ItemLists}
    \cup {[items |-> q, pageInfo |-> p] : q \in ItemLists, p \in PageInfos}

\* The values of data.bet in a body
BetValues == {JNull, Feed[1], Feed[3]}

\* The parsed JSON bodies of the indexing API
Bodies ==
  {JNull, [errors |-> "internal error"], [data |-> JNull], [data |-> [other |-> TRUE]]}
    \cup {[data |-> [bet |-> b]] : b \in BetValues}
    \cup {[data |-> [bets |-> b]] : b \in BetsValues}

\* What awaiting res.json() gives: a parse failure or a parsed body
BodyOutcomes == {Rejected("SyntaxError")} \cup {Resolved(b) : b \in Bodies}

HttpStatuses == {200, 500}

(***************************************************************************)
(* services.ts: messages, query construction, raw extraction               *)
(***************************************************************************)
RawFns == {"getRawBetFromId", "getRawBetsFromIds", "getRecentRawBets", "getUserRawBets"}

PageFns == {"getFormattedBetsFromIds", "getRecentFormattedBets", "getUserFormattedBets"}

AggregateFns == PageFns \cup {"getFormattedBetFromId"}

\* The raw fetcher each public function calls
RawFetcherOf(f) ==
  CASE f = "getFormattedBetFromId"   -> "getRawBetFromId"
    [] f = "getFormattedBetsFromIds" -> "getRawBetsFromIds"
    [] f = "getRecentFormattedBets"  -> "getRecentRawBets"
    [] f = "getUserFormattedBets"    -> "getUserRawBets"
    [] OTHER                         -> f

\* The fixed message of each function's catch block
ErrorMsg(f) ==
  CASE f = "getRawBetFromId"         -> "Failed to get raw bet details from bet id"
    [] f = "getRawBetsFromIds"       -> "Failed to get raw bets from bet ids"
    [] f = "getRecentRawBets"        -> "Failed to get recent raw bets"
    [] f = "getUserRawBets"          -> "Failed to get raw bet details for a user"
    [] f = "formatBet"               -> "Failed to format bets from raw bets"
    [] f = "getFormattedBetFromId"   -> "Failed to get formatted bet details from bet id"
    [] f = "getFormattedBetsFromIds" -> "Failed to get formatted bets from bet ids"
    [] f = "getRecentFormattedBets"  -> "Failed to get recent formatted bets"
    [] f = "getUserFormattedBets"    -> "Failed to get formatted bet details for a user"

\* The call each raw fetcher makes to its query generator: the generators
\* build the query text from exactly these arguments.
BetQuery(betId) == [gen |-> "generateBetQuery", betId |-> betId]
BetsQuery(betIds) == [gen |-> "generateBetsQuery", betIds |-> betIds]
RecentBetsQuery_noPage(numBets, page) ==
  [gen |-> "generateRecentBetsQuery", numBets |-> numBets, page |-> JUndef]
RecentBetsQuery(numBets, page) ==
  [gen |-> "generateRecentBetsQuery", numBets |-> numBets, page |-> page]
UserBetsQuery(user, numBets, page) ==
  [gen |-> "generateUserBetsQuery", user |-> user, numBets |-> numBets, page |-> page]

\* The property of result.data each raw fetcher returns
DataField(rawFn) == IF rawFn = "getRawBetFromId" THEN "bet" ELSE "bets"

\* A raw fetcher that rejects on a non-2xx status
RawSettle_checkStatus(rawFn, status, bodyOutcome) ==
  IF status # 200 \/ bodyOutcome.st = "rejected"
       \/ Nullish(bodyOutcome.v) \/ Nullish(Prop(bodyOutcome.v, "data"))
  THEN Rejected(ErrorMsg(rawFn))
  ELSE Resolved(Prop(Prop(bodyOutcome.v, "data"), DataField(rawFn)))

\* The raw fetcher once the body is read: result.data.<bet|bets> inside the
\* try; a parse failure or a TypeError on a missing result.data is caught and
\* rethrown as the fixed message. The HTTP status is not looked at.
RawSettle(rawFn, status, bodyOutcome) ==
  IF bodyOutcome.st = "rejected"
       \/ Nullish(bodyOutcome.v) \/ Nullish(Prop(bodyOutcome.v, "data"))
  THEN Rejected(ErrorMsg(rawFn))
  ELSE Resolved(Prop(Prop(bodyOutcome.v, "data"), DataField(rawFn)))

(***************************************************************************)
(* services.ts: formatBet                                                  *)
(***************************************************************************)
\* amount and bigintAmount of the returned record
FormatAmount(text) ==
  LET b == BigIntOf(text)
  IN  IF ~b.ok THEN [threw |-> TRUE, amount |-> DoubleNaN, bigintAmount |-> <<>>]
      ELSE [threw |-> FALSE,
            amount |-> NumberOf(formatUnits(b.v, TokenDecimals)),
            bigintAmount |-> b.v]

\* new Date(Number(text) * 1000), as its time value
FormatDate(text) == DoubleTimes(NumberOf(text), 1000)

\* The conversions of the texts of the world's bets, computed once
AmountTable == [t \in {b.amount : b \in FormatInputs} |-> FormatAmount(t)]
NumberTable == [t \in {b.id : b \in FormatInputs} |-> NumberOf(t)]
DateTable ==
  [t \in {b.createdTime : b \in FormatInputs} \cup {b.validUntil : b \in FormatInputs}
     |-> FormatDate(t)]

\* A record that takes the participant's alias for the creator's
BuildFormattedBet_swapAliases(rawBet, vals) ==
  [betId            |-> NumberTable[rawBet.id],
   contractAddress  |-> rawBet.contractAddress,
   creator          |-> rawBet.creator,
   creatorAlias     |-> vals[2],
   participant      |-> rawBet.participant,
   participantAlias |-> vals[1],
   amount           |-> AmountTable[rawBet.amount].amount,
   bigintAmount     |-> AmountTable[rawBet.amount].bigintAmount,
   token            |-> rawBet.token,
   message          |-> rawBet.message,
   judge            |-> rawBet.judge,
   judgeAlias       |-> vals[3],
   validUntil       |-> DateTable[rawBet.validUntil],
   createdTime      |-> DateTable[rawBet.createdTime],
   status           |-> vals[4][1].result,
   winner           |-> vals[4][2].result,
   judgementReason  |-> vals[4][3].result]

\* A record whose status is the result of the winner read
BuildFormattedBet_statusFromWinner(rawBet, vals) ==
  [betId            |-> NumberTable[rawBet.id],
   contractAddress  |-> rawBet.contractAddress,
   creator          |-> rawBet.creator,
   creatorAlias     |-> vals[1],
   participant      |-> rawBet.participant,
   participantAlias |-> vals[2],
   amount           |-> AmountTable[rawBet.amount].amount,
   bigintAmount     |-> AmountTable[rawBet.amount].bigintAmount,
   token            |-> rawBet.token,
   message          |-> rawBet.message,
   judge            |-> rawBet.judge,
   judgeAlias       |-> vals[3],
   validUntil       |-> DateTable[rawBet.validUntil],
   createdTime      |-> DateTable[rawBet.createdTime],
   status           |-> vals[4][2].result,
   winner           |-> vals[4][2].result,
   judgementReason  |-> vals[4][3].result]

\* The record formatBet returns (lines 179-197), from the raw bet and the
\* values Promise.all resolved with, destructured by position:
\* [creatorAlias, participantAlias, judgeAlias, [status, winner, judgementReason]]
BuildFormattedBet(rawBet, vals) ==
  [betId            |-> NumberTable[rawBet.id],
   contractAddress  |-> rawBet.contractAddress,
   creator          |-> rawBet.creator,
   creatorAlias     |-> vals[1],
   participant      |-> rawBet.participant,
   participantAlias |-> vals[2],
   amount           |-> AmountTable[rawBet.amount].amount,
   bigintAmount     |-> AmountTable[rawBet.amount].bigintAmount,
   token            |-> rawBet.token,
   message          |-> rawBet.message,
   judge            |-> rawBet.judge,
   judgeAlias       |-> vals[3],
   validUntil       |-> DateTable[rawBet.validUntil],
   createdTime      |-> DateTable[rawBet.createdTime],
   status           |-> vals[4][1].result,
   winner           |-> vals[4][2].result,
   judgementReason  |-> vals[4][3].result]

\* formatBet up to its await: the three alias lookups and the multi-call are
\* issued, in this order, as the array given to Promise.all. Reading a field
\* of a null or undefined rawBet throws inside the try before any is issued.
StartItem(rawBet) ==
  IF Nullish(rawBet)
  THEN [raw |-> rawBet, ops |-> <<>>, out |-> Rejected(ErrorMsg("formatBet"))]
  ELSE [raw |-> rawBet,
        ops |-> << [st |-> "pending", arg |-> rawBet.creator],
                   [st |-> "pending", arg |-> rawBet.participant],
                   [st |-> "pending", arg |-> rawBet.judge],
                   [st |-> "pending", arg |-> rawBet.contractAddress] >>,
        out |-> Pending]

\* A formatBet that turns a rejected lookup into an undefined value
ItemOutcome_swallow(item) ==
  IF item.out.st # "pending" THEN item.out
  ELSE IF \E k \in DOMAIN item.ops : item.ops[k].st = "pending" THEN Pending
  ELSE IF AmountTable[item.raw.amount].threw THEN Rejected(ErrorMsg("formatBet"))
  ELSE Resolved(BuildFormattedBet(item.raw,
         [k \in DOMAIN item.ops |->
            IF item.ops[k].st = "resolved" THEN item.ops[k].v
            ELSE IF k = 4 THEN <<ReadFailed, ReadFailed, ReadFailed>>
            ELSE Undefined]))

\* The promise formatBet returned, after one of its four operations
\* settled: a rejection of any of them, or a throw while building the record
\* (BigInt on text that is no integer), is caught and rethrown as the fixed
\* message.
ItemOutcome(item) ==
  IF item.out.st # "pending" THEN item.out
  ELSE LET all == PromiseAll(item.ops)
       IN  IF all.st = "rejected" THEN Rejected(ErrorMsg("formatBet"))
           ELSE IF all.st = "pending" THEN Pending
           ELSE IF AmountTable[item.raw.amount].threw
           THEN Rejected(ErrorMsg("formatBet"))
           ELSE Resolved(BuildFormattedBet(item.raw, all.v))

(***************************************************************************)
(* services.ts: the aggregate fetchers                                     *)
(***************************************************************************)
\* rawBets.items.map(...) throws a TypeError on a rawBets that is null or
\* undefined, or that has no items
HasItems(rawBets) == ~Nullish(rawBets) /\ "items" \in DOMAIN rawBets

\* The formatBet calls an aggregate fetcher starts once its raw fetch has
\* resolved: one for the bet, or one for every item of the page, all started
\* by the map before the fetcher awaits any of them.
ItemsOf(f, ro) ==
  IF ro.st # "resolved" THEN <<>>
  ELSE IF f = "getFormattedBetFromId" THEN <<StartItem(ro.v)>>
  ELSE IF f \in PageFns /\ HasItems(ro.v)
  THEN [i \in 1..Len(ro.v.items) |-> StartItem(ro.v.items[i])]
  ELSE <<>>

\* A join that waits for every item and keeps the ones that were formatted
PageAll_keepFormatted(its) ==
  PromiseAll_dropRejected([i \in DOMAIN its |-> its[i].out])

\* Promise.all(rawBets.items.map((bet) => formatBet(bet)))
PageAll(its) == PromiseAll([i \in DOMAIN its |-> its[i].out])

\* A page that leaves the pagination metadata out
PageValue_noPageInfo(f, rawBets, formatted) == [items |-> formatted]

\* The value a page-level fetcher returns
PageValue(f, rawBets, formatted) ==
  IF f = "getFormattedBetsFromIds" THEN [items |-> formatted]
  ELSE [items |-> formatted, pageInfo |-> Prop(rawBets, "pageInfo")]

\* getFormattedBetFromId: the raw fetch is awaited inside the try; the
\* promise of formatBet is returned without being awaited, so the returned
\* promise settles as formatBet's does.
BetFetcherResult(f, ro, its) ==
  IF ro.st = "pending" THEN Pending
  ELSE IF ro.st = "rejected" THEN Rejected(ErrorMsg(f))
  ELSE its[1].out

\* getFormattedBetsFromIds, getRecentFormattedBets, getUserFormattedBets: the
\* raw fetch and the join of the items are awaited inside the try.
PageFetcherResult(f, ro, its) ==
  IF ro.st = "pending" THEN Pending
  ELSE IF ro.st = "rejected" \/ ~HasItems(ro.v) THEN Rejected(ErrorMsg(f))
  ELSE LET all == PageAll(its)
       IN  IF all.st = "pending" THEN Pending
           ELSE IF all.st = "rejected" THEN Rejected(ErrorMsg(f))
           ELSE Resolved(PageValue(f, ro.v, all.v))

\* The promise the public function f returned to its caller
TopResult(f, ro, its) ==
  IF f = "formatBet" THEN its[1].out
  ELSE IF f \in RawFns THEN ro
  ELSE IF f = "getFormattedBetFromId" THEN BetFetcherResult(f, ro, its)
  ELSE PageFetcherResult(f, ro, its)

(***************************************************************************)
(* The bot's retrieve-transaction endpoint                                 *)
(***************************************************************************)
\* The number of hex digits of an address
AddressDigits == 40

LowerHex == {"0", "1", "2", "3", "4", "5", "6", "7", "8", "9", "a", "b", "c", "d", "e", "f"}
UpperHex == {"A", "B", "C", "D", "E", "F"}

ToLower(c) ==
  CASE c = "A" -> "a" [] c = "B" -> "b" [] c = "C" -> "c"
    [] c = "D" -> "d" [] c = "E" -> "e" [] c = "F" -> "f" [] OTHER -> c

\* The mixed-case (EIP-55) spellings known to carry a correct checksum; the
\* hash that decides it is not computed here.
Checksummed == { <<"0", "x", "5", "a", "A", "e", "b", "6", "0", "5", "3", "F", "3", "E", "9", "4", "C", "9", "b", "9", "A", "0", "9", "f", "3", "3", "6", "6", "9", "4", "3", "5", "E", "7", "E", "f", "1", "B", "e", "A", "e", "d">> }

\* viem isAddress in its default strict mode: 0x and forty hex digits, all
\* lower case or spelled with the correct checksum.
isAddress(text) ==
  /\ Len(text) = AddressDigits + 2
  /\ text[1] = "0" /\ text[2] = "x"
  /\ \A i \in 3..Len(text) : text[i] \in LowerHex \cup UpperHex
  /\ \/ [i \in 1..Len(text) |-> ToLower(text[i])] = text
     \/ text \in Checksummed

HexRun(c) == [i \in 1..AddressDigits |-> c]

\* Path segments that are addresses
GoodSegments ==
  {<<"0", "x">> \o HexRun("a"), <<"0", "x">> \o HexRun("0"),
   <<"0", "x">> \o HexRun("7"), <<"0", "x", "5", "a", "A", "e", "b", "6", "0", "5", "3", "F", "3", "E", "9", "4", "C", "9", "b", "9", "A", "0", "9", "f", "3", "3", "6", "6", "9", "4", "3", "5", "E", "7", "E", "f", "1", "B", "e", "A", "e", "d">>}

\* Path segments that are not: no prefix, a wrong prefix, too short, too
\* long, a letter that is no hex digit, a wrong checksum, a name, nothing
BadSegments ==
  {HexRun("a") \o <<"a", "a">>,
   <<"0", "X">> \o HexRun("a"),
   <<"0", "x">> \o SubSeq(HexRun("a"), 1, AddressDigits - 1),
   <<"0", "x">> \o HexRun("a") \o <<"a">>,
   <<"0", "x", "g">> \o SubSeq(HexRun("a"), 1, AddressDigits - 1),
   <<"0", "x", "5", "a", "a", "e", "b", "6", "0", "5", "3", "F", "3", "E", "9", "4", "C", "9", "b", "9", "A", "0", "9", "f", "3", "3", "6", "6", "9", "4", "3", "5", "E", "7", "E", "f", "1", "B", "e", "A", "e", "d">>,
   <<"v", "i", "t", "a", "l", "i", "k", ".", "e", "t", "h">>,
   <<>>}

Segments == GoodSegments \cup BadSegments

\* A handler that builds the proposal whatever the validation said
RetrieveOutcome_noThrow(segment) ==
  [thrown |-> FALSE,
   proposal |-> [to |-> segment, chainId |-> "eip155:42161",
                 functionName |-> "retrieveTokens"]]

\* retrieveTxn on a request whose contractAddress path parameter is
\* segment: the zod custom schema succeeds exactly when isAddress does and
\* hands the value back unchanged; on failure the handler throws, otherwise
\* it returns c.contract(...) for the parsed address.
RetrieveOutcome(segment) ==
  LET success       == isAddress(segment)
      parsedAddress == segment
  IN  IF ~success THEN [thrown |-> TRUE]
      ELSE [thrown |-> FALSE,
            proposal |-> [to |-> parsedAddress, chainId |-> "eip155:42161",
                          functionName |-> "retrieveTokens"]]

(***************************************************************************)
(* The amounts formatBet is applied to                                     *)
(***************************************************************************)
AmountDigits == {"0", "1", "5"}

\* The longest amount text built from AmountDigits
MaxDigits == 7

RECURSIVE TextsOfLen(_, _)
TextsOfLen(S, n) ==
  IF n = 0 THEN {<<>>}
  ELSE {Append(t, c) : t \in TextsOfLen(S, n - 1), c \in S}

\* Amounts of eighteen-decimal tokens and amounts around 2^53 * 10^6, text
\* that is no integer, and the empty text
SampleAmounts ==
  { <<"1", "0", "0", "0", "0", "0", "0", "0", "0", "0", "0", "0", "0", "0", "0", "0", "0", "0", "1">>,
    <<"9", "0", "0", "7", "1", "9", "9", "2", "5", "4", "7", "4", "0", "9", "9", "3", "0", "0", "0", "0", "0", "0">>,
    <<"9", "0", "0", "7", "1", "9", "9", "2", "5", "4", "7", "4", "0", "9", "9", "2", "0", "0", "0", "0", "0", "0">>,
    <<"9", "0", "0", "7", "1", "9", "9", "2", "5", "4", "7", "4", "0", "9", "9", "5", "0", "0", "0", "0", "0", "0">>,
    <<"1", "8", "0", "1", "4", "3", "9", "8", "5", "0", "9", "4", "8", "1", "9", "8", "5">>,
    <<"1", "5", "6", "2", "5">>,
    <<"1", "2", "3", "4", "5", "6", "7", "8", "9">>,
    <<"1", ".", "5">>,
    <<"1", "2", "a">>,
    <<>> }

AmountTexts ==
  UNION {TextsOfLen(AmountDigits, n) : n \in 1..MaxDigits} \cup SampleAmounts

(***************************************************************************)
(* State                                                                   *)
(***************************************************************************)
VARIABLES
  fn,          \* the public function that was called, "idle" before the call
  arg,         \* its arguments
  query,       \* the call made to the query generator
  http,        \* the POST to the indexing API: its state, status and body
  raw,         \* the promise of the raw fetcher
  items,       \* the formatBet calls the caller waits for: the raw bet, the
               \* four operations and the promise of each
  result,      \* the promise returned to the caller
  failed,      \* the operations that were rejected, as <<item, operation>>
  outOfOrder   \* an operation settled while an earlier-issued one was pending

VARIABLES
  requests,    \* the bot's requests so far: path segment and whether it threw
  proposals    \* the transaction proposals the bot constructed, in order

VARIABLES
  amtText,     \* the amount text of the raw bet given to formatBet
  amtOut       \* the amount fields of the record it returned

VARIABLES
  list,        \* the bet list that is mounted
  account,     \* the wallet's connection status, as useAccount reports it
  status,      \* the infinite query's status: "pending", "success", "error"
  fetchStatus, \* "idle" or "fetching"
  direction,   \* of the running fetch: "forward" (next page), "all", "none"
  data,        \* the loaded pages and the page parameters they were fetched with
  building,    \* the pages a reload has fetched so far, and how many it wants
  net,         \* the queryFn calls that have not settled yet
  active,      \* the id of the call whose result the query waits for, or 0
  issued,      \* the number of queryFn calls made so far
  lastReq,     \* the latest queryFn call, with the page that preceded it
  lastDropped  \* the page maxPages dropped last, if any

svcVars == <<fn, arg, query, http, raw, items, result, failed, outOfOrder>>

botVars == <<requests, proposals>>

amtVars == <<amtText, amtOut>>

listVars == <<list, account, status, fetchStatus, direction, data, building, net,
              active, issued, lastReq, lastDropped>>

vars == <<svcVars, botVars, amtVars, listVars>>

\* The number of requests the bot is followed for
MaxRequests == 3

BetIds == {5}
BetIdLists == {<<5, 7>>}
Users == {"0xA1"}

\* The page size the bet lists ask for
PageSize == 6

SvcInit ==
  /\ fn = "idle"
  /\ arg = JUndef
  /\ query = [gen |-> "none"]
  /\ http = [st |-> "none"]
  /\ raw = [st |-> "none"]
  /\ items = <<>>
  /\ result = [st |-> "none"]
  /\ failed = {}
  /\ outOfOrder = FALSE

BotInit ==
  /\ requests = <<>>
  /\ proposals = <<>>

AmtIdle ==
  /\ amtText = <<>>
  /\ amtOut = [st |-> "none"]

\* Nothing is mounted
ListIdle ==
  /\ list = "none"
  /\ account = "disconnected"
  /\ status = "pending"
  /\ fetchStatus = "idle"
  /\ direction = "none"
  /\ data = [pages |-> <<>>, pageParams |-> <<>>]
  /\ building = [pages |-> <<>>, pageParams |-> <<>>, remaining |-> 0]
  /\ net = {}
  /\ active = 0
  /\ issued = 0
  /\ lastReq = [id |-> 0]
  /\ lastDropped = JUndef

\* A fetcher runs to its first await: the query is generated and posted
StartFetch(f, a, q) ==
  /\ fn = "idle"
  /\ fn' = f
  /\ arg' = a
  /\ query' = q
  /\ http' = [st |-> "fetching"]
  /\ raw' = Pending
  /\ result' = Pending
  /\ UNCHANGED <<items, failed, outOfOrder, botVars, amtVars, listVars>>

CallGetRawBetFromId ==
  \E id \in BetIds : StartFetch("getRawBetFromId", [betId |-> id], BetQuery(id))

CallGetRawBetsFromIds ==
  \E ids \in BetIdLists : StartFetch("getRawBetsFromIds", [betIds |-> ids], BetsQuery(ids))

CallGetRecentRawBets ==
  \E pg \in PageArgs :
    StartFetch("getRecentRawBets", [numBets |-> PageSize, page |-> pg],
               RecentBetsQuery(PageSize, pg))

CallGetUserRawBets ==
  \E u \in Users, pg \in PageArgs :
    StartFetch("getUserRawBets", [user |-> u, numBets |-> PageSize, page |-> pg],
               UserBetsQuery(u, PageSize, pg))

CallGetFormattedBetFromId ==
  \E id \in BetIds : StartFetch("getFormattedBetFromId", [betId |-> id], BetQuery(id))

CallGetFormattedBetsFromIds ==
  \E ids \in BetIdLists :
    StartFetch("getFormattedBetsFromIds", [betIds |-> ids], BetsQuery(ids))

CallGetRecentFormattedBets ==
  \E pg \in PageArgs :
    StartFetch("getRecentFormattedBets", [numBets |-> PageSize, page |-> pg],
               RecentBetsQuery(PageSize, pg))

CallGetUserFormattedBets ==
  \E u \in Users, pg \in PageArgs :
    StartFetch("getUserFormattedBets", [user |-> u, numBets |-> PageSize, page |-> pg],
               UserBetsQuery(u, PageSize, pg))

\* formatBet called directly: it runs to its await
CallFormatBet ==
  \E rb \in FormatInputs \cup {JUndef} :
    /\ fn = "idle"
    /\ fn' = "formatBet"
    /\ arg' = [rawBet |-> rb]
    /\ items' = <<StartItem(rb)>>
    /\ result' = TopResult("formatBet", raw, items')
    /\ UNCHANGED <<query, http, raw, failed, outOfOrder, botVars, amtVars, listVars>>

\* The raw fetcher settles, and the function that awaited it runs on
RawSettles(ro) ==
  /\ raw' = ro
  /\ items' = ItemsOf(fn, ro)
  /\ result' = TopResult(fn, ro, items')

\* fetch() settles: the request fails, or the response head arrives
FetchSettle ==
  /\ http.st = "fetching"
  /\ \/ /\ http' = [st |-> "failed"]
        /\ RawSettles(Rejected(ErrorMsg(RawFetcherOf(fn))))
     \/ \E code \in HttpStatuses :
          /\ http' = [st |-> "parsing", status |-> code]
          /\ UNCHANGED <<raw, items, result>>
  /\ UNCHANGED <<fn, arg, query, failed, outOfOrder, botVars, amtVars, listVars>>

\* res.json() settles
JsonSettle ==
  /\ http.st = "parsing"
  /\ \E bo \in BodyOutcomes :
       /\ http' = [st |-> "done", status |-> http.status, body |-> bo]
       /\ RawSettles(RawSettle(RawFetcherOf(fn), http.status, bo))
  /\ UNCHANGED <<fn, arg, query, failed, outOfOrder, botVars, amtVars, listVars>>

\* An operation settles while one issued before it is still pending
Overtakes(i, k) ==
  \E j \in DOMAIN items : \E l \in DOMAIN items[j].ops :
    /\ j < i \/ (j = i /\ l < k)
    /\ items[j].ops[l].st = "pending"

\* Operation k of item i settles with out, and whoever awaited it runs on.
\* Once the returned promise is rejected nothing that is still in flight can
\* change what the caller got, and the operations are followed no further.
OpSettles(i, k, out) ==
  /\ result.st = "pending"
  /\ items[i].ops[k].st = "pending"
  /\ LET settled == [items[i] EXCEPT !.ops[k] = out]
         its     == [items EXCEPT ![i] = [settled EXCEPT !.out = ItemOutcome(settled)]]
         res     == TopResult(fn, raw, its)
     IN  /\ result' = res
         /\ items' = IF res.st = "rejected"
                     THEN [j \in DOMAIN its |-> [its[j] EXCEPT !.ops = <<>>]]
                     ELSE its
  /\ failed' = IF out.st = "rejected" THEN failed \cup {<<i, k>>} ELSE failed
  /\ outOfOrder' = (outOfOrder \/ Overtakes(i, k))
  /\ UNCHANGED <<fn, arg, query, http, raw, botVars, amtVars, listVars>>

\* getPreferredAlias settles for the creator, participant or judge of item i
AliasSettle ==
  \E i \in DOMAIN items : \E k \in DOMAIN items[i].ops :
    /\ k <= 3
    /\ LET a == items[i].ops[k].arg
       IN  \/ OpSettles(i, k, [st |-> "resolved", arg |-> a, v |-> AliasOf(a)])
           \/ OpSettles(i, k, [st |-> "rejected", arg |-> a, msg |-> "lookup failed"])

\* readContracts settles for item i: with the three reads' results, each a
\* success or a failure, or with a rejection of the call as a whole
ChainSettle ==
  \E i \in DOMAIN items :
    /\ Len(items[i].ops) = 4
    /\ LET a == items[i].ops[4].arg
       IN  \/ OpSettles(i, 4, [st |-> "resolved", arg |-> a, v |-> ChainReads(a)])
           \/ OpSettles(i, 4, [st |-> "rejected", arg |-> a, msg |-> "multicall failed"])

SvcNext ==
  \/ CallGetRawBetFromId
  \/ CallGetRawBetsFromIds
  \/ CallGetRecentRawBets
  \/ CallGetUserRawBets
  \/ CallFormatBet
  \/ CallGetFormattedBetFromId
  \/ CallGetFormattedBetsFromIds
  \/ CallGetRecentFormattedBets
  \/ CallGetUserFormattedBets
  \/ FetchSettle
  \/ JsonSettle
  \/ AliasSettle
  \/ ChainSettle

Init == SvcInit /\ BotInit /\ AmtIdle /\ ListIdle

Next == SvcNext

Spec == Init /\ [][Next]_vars

(***************************************************************************)
(* The bot endpoint, request after request                                 *)
(***************************************************************************)
RetrieveTxn ==
  /\ Len(requests) < MaxRequests
  /\ \E segment \in Segments :
       LET out == RetrieveOutcome(segment)
       IN  /\ requests' = Append(requests, [segment |-> segment, thrown |-> out.thrown])
           /\ proposals' = IF out.thrown THEN proposals
                           ELSE Append(proposals, out.proposal)
  /\ UNCHANGED <<svcVars, amtVars, listVars>>

BotNext == RetrieveTxn

SpecBot == Init /\ [][BotNext]_vars

(***************************************************************************)
(* formatBet's amount fields on a range of amount texts                    *)
(***************************************************************************)
AmtInit ==
  /\ amtText \in AmountTexts
  /\ amtOut = [st |-> "none"]

FormatAmountStep ==
  /\ amtOut.st = "none"
  /\ amtOut' = [st |-> "done", f |-> FormatAmount(amtText)]
  /\ UNCHANGED <<amtText, svcVars, botVars, listVars>>

AmountNext == FormatAmountStep

AmountInit == SvcInit /\ BotInit /\ AmtInit /\ ListIdle

SpecAmount == AmountInit /\ [][AmountNext]_vars

(***************************************************************************)
(* bet-list-card.tsx: the bet lists and their infinite query               *)
(***************************************************************************)
\* JavaScript null where a text is expected
Null == "null"

Lists == {"RecentBetList", "MyBetList"}

AccountStatuses == {"disconnected", "connecting", "connected"}

\* The options given to useInfiniteQuery
initialPageParam == ""
maxPages == 7

\* The number of queryFn calls a list is followed for
MaxFetches == 10

\* The cursors the indexing API hands out, page after page
FeedCursors == <<"c1", "c2", "c3", "c4", "c5", "c6", "c7", "c8", "c9">>

CursorIndex(c) ==
  IF c = "" THEN 0 ELSE CHOOSE i \in DOMAIN FeedCursors : FeedCursors[i] = c

\* The fetcher each list's queryFn calls
QueryFnOf(l) ==
  IF l = "RecentBetList" THEN "getRecentFormattedBets" ELSE "getUserFormattedBets"

\* queryFn: ({ pageParam = "" }) => fetcher(..., 6, { afterCursor: pageParam }),
\* down to the query the fetcher generates
QueryFnCall(l, pageParam) ==
  LET page == [afterCursor |-> IF pageParam = Undefined THEN "" ELSE pageParam]
  IN  IF l = "RecentBetList" THEN RecentBetsQuery(PageSize, page)
      ELSE UserBetsQuery(CHOOSE u \in Users : TRUE, PageSize, page)

\* What the indexing API may answer after cursor c: a page that names the
\* next cursor, a page whose endCursor is null, or a page without pageInfo
RawPagesAfter(c) ==
  LET i == CursorIndex(c)
      info(e) == [hasPreviousPage |-> i > 0, startCursor |-> <<"start after", c>>,
                  hasNextPage |-> FALSE, endCursor |-> e]
  IN  {[items |-> <<>>], [items |-> <<>>, pageInfo |-> info(Null)]}
        \cup (IF i < Len(FeedCursors)
              THEN {[items |-> <<>>, pageInfo |-> info(FeedCursors[i + 1])]}
              ELSE {})

\* How a queryFn call for cursor c may settle: the fetcher rejects with its
\* fixed message or resolves with the page it builds from the raw page
QueryFnOutcomes(l, c) ==
  {Rejected(ErrorMsg(QueryFnOf(l)))}
    \cup {Resolved(PageValue(QueryFnOf(l), rb, <<>>)) : rb \in RawPagesAfter(c)}

\* getNextPageParam: (lastPage, _) => lastPage.pageInfo?.endCursor
getNextPageParam(lastPage) ==
  IF Nullish(Prop(lastPage, "pageInfo")) THEN Undefined
  ELSE lastPage.pageInfo.endCursor

\* param == null
NoParam(param) == param = Undefined \/ param = Null

LastOf(seq) == seq[Len(seq)]

\* The query library's addToEnd: append, and drop the first beyond max
addToEnd(seq, item, max) ==
  LET new == Append(seq, item)
  IN  IF max > 0 /\ Len(new) > max THEN Tail(new) ELSE new

\* What useInfiniteQuery hands to the component
hasNextPage ==
  data.pages # <<>> /\ ~NoParam(getNextPageParam(LastOf(data.pages)))
isFetching == fetchStatus = "fetching"
isFetchingNextPage == fetchStatus = "fetching" /\ direction = "forward"

\* enabled: account.isConnected, for MyBetList alone
QueryEnabled == list = "RecentBetList" \/ (list = "MyBetList" /\ account = "connected")

\* BetList is rendered, and within it the button rather than the spinner
ButtonShown ==
  /\ list \in Lists
  /\ list = "MyBetList" => account # "disconnected"
  /\ status = "success"
  /\ ~(isFetching /\ ~isFetchingNextPage)

\* A button that is never disabled
LoadMoreDisabled_never == FALSE

\* disabled={!hasNextPage || isFetchingNextPage}
LoadMoreDisabled == ~hasNextPage \/ isFetchingNextPage

\* queryFn is called for pageParam; before is the page that precedes the one
\* asked for, and pos the place of the page asked for among the pages
CallQueryFn(pageParam, kind, pos, before) ==
  /\ issued < MaxFetches
  /\ issued' = issued + 1
  /\ active' = issued + 1
  /\ net' = net \cup {[id |-> issued + 1, call |-> QueryFnCall(list, pageParam)]}
  /\ lastReq' = [id |-> issued + 1, call |-> QueryFnCall(list, pageParam),
                 kind |-> kind, pos |-> pos, before |-> before,
                 wasFetchingNextPage |-> isFetchingNextPage]

ListInit ==
  /\ list \in Lists
  /\ account \in (IF list = "MyBetList" THEN AccountStatuses ELSE {"disconnected"})
  /\ status = "pending"
  /\ fetchStatus = "idle"
  /\ direction = "none"
  /\ data = [pages |-> <<>>, pageParams |-> <<>>]
  /\ building = [pages |-> <<>>, pageParams |-> <<>>, remaining |-> 0]
  /\ net = {}
  /\ active = 0
  /\ issued = 0
  /\ lastReq = [id |-> 0]
  /\ lastDropped = JUndef

\* The wallet connects or disconnects under MyBetList
AccountChanges ==
  /\ list = "MyBetList"
  /\ \E a \in AccountStatuses \ {account} : account' = a
  /\ UNCHANGED <<list, status, fetchStatus, direction, data, building, net, active,
                 issued, lastReq, lastDropped, svcVars, botVars, amtVars>>

\* The query loads or reloads its pages (on mount, on window focus, when it
\* becomes enabled): the first page with the parameter it was loaded with
\* before, or with initialPageParam when there is none
FetchAll ==
  /\ QueryEnabled
  /\ fetchStatus = "idle"
  /\ fetchStatus' = "fetching"
  /\ direction' = "all"
  /\ building' = [pages |-> <<>>, pageParams |-> <<>>,
                  remaining |-> IF data.pages = <<>> THEN 1 ELSE Len(data.pages)]
  /\ CallQueryFn(IF data.pageParams = <<>> THEN initialPageParam ELSE data.pageParams[1],
                 IF data.pages = <<>> THEN "initial" ELSE "refetch", 1, JUndef)
  /\ UNCHANGED <<list, account, status, data, lastDropped, svcVars, botVars, amtVars>>

\* onClick={() => fetchNextPage()} on a button that is shown and not
\* disabled. fetchNextPage drops a fetch that is running (its queryFn call
\* stays on the network, its result is no longer waited for), and calls
\* queryFn with the parameter after the last page; with no such parameter
\* it ends at once, with the data as it is.
ClickLoadMore ==
  /\ ButtonShown
  /\ ~LoadMoreDisabled
  /\ LET lastPage == LastOf(data.pages)
         param    == getNextPageParam(lastPage)
     IN  IF NoParam(param)
         THEN /\ fetchStatus' = "idle"
              /\ direction' = "none"
              /\ active' = 0
              /\ UNCHANGED <<net, issued, lastReq>>
         ELSE /\ fetchStatus' = "fetching"
              /\ direction' = "forward"
              /\ CallQueryFn(param, "next", Len(data.pages) + 1, lastPage)
  /\ UNCHANGED <<list, account, status, data, building, lastDropped,
                 svcVars, botVars, amtVars>>

\* A queryFn call resolves with a page. A call that is no longer waited for
\* is forgotten. A next-page fetch adds the page to the end of the data and
\* ends; a reload adds it to the pages it is building and goes on to the next
\* page while it wants more and the page names a next parameter.
PageArrives ==
  \E r \in net : \E out \in QueryFnOutcomes(list, r.call.page.afterCursor) :
    /\ out.st = "resolved"
    /\ IF r.id # active
       THEN /\ net' = net \ {r}
            /\ UNCHANGED <<status, fetchStatus, direction, data, building, active,
                           issued, lastReq, lastDropped>>
       ELSE IF direction = "forward"
       THEN /\ net' = net \ {r}
            /\ data' = [pages |-> addToEnd(data.pages, out.v, maxPages),
                        pageParams |-> addToEnd(data.pageParams, r.call.page.afterCursor,
                                                maxPages)]
            /\ lastDropped' = IF Len(data.pages) + 1 > maxPages THEN data.pages[1]
                              ELSE lastDropped
            /\ status' = "success"
            /\ fetchStatus' = "idle"
            /\ direction' = "none"
            /\ active' = 0
            /\ UNCHANGED <<building, issued, lastReq>>
       ELSE LET pages  == addToEnd(building.pages, out.v, maxPages)
                params == addToEnd(building.pageParams, r.call.page.afterCursor, maxPages)
                param  == getNextPageParam(out.v)
            IN  IF Len(pages) < building.remaining /\ ~NoParam(param)
                THEN /\ building' = [building EXCEPT !.pages = pages, !.pageParams = params]
                     /\ issued < MaxFetches
                     /\ issued' = issued + 1
                     /\ active' = issued + 1
                     /\ net' = (net \ {r})
                                 \cup {[id |-> issued + 1, call |-> QueryFnCall(list, param)]}
                     /\ lastReq' = [id |-> issued + 1, call |-> QueryFnCall(list, param),
                                    kind |-> lastReq.kind, pos |-> Len(pages) + 1,
                                    before |-> out.v,
                                    wasFetchingNextPage |-> isFetchingNextPage]
                     /\ UNCHANGED <<status, fetchStatus, direction, data, lastDropped>>
                ELSE /\ net' = net \ {r}
                     /\ data' = [pages |-> pages, pageParams |-> params]
                     /\ building' = [pages |-> <<>>, pageParams |-> <<>>, remaining |-> 0]
                     /\ status' = "success"
                     /\ fetchStatus' = "idle"
                     /\ direction' = "none"
                     /\ active' = 0
                     /\ UNCHANGED <<issued, lastReq, lastDropped>>
    /\ UNCHANGED <<list, account, svcVars, botVars, amtVars>>

\* The queryFn call the query waits for rejects and is retried: queryFn is
\* called again with the same parameter
FetchRetries ==
  \E r \in net :
    /\ r.id = active
    /\ issued < MaxFetches
    /\ issued' = issued + 1
    /\ active' = issued + 1
    /\ net' = (net \ {r}) \cup {[id |-> issued + 1, call |-> r.call]}
    /\ lastReq' = [lastReq EXCEPT !.id = issued + 1]
    /\ UNCHANGED <<list, account, status, fetchStatus, direction, data, building,
                   lastDropped, svcVars, botVars, amtVars>>

\* The queryFn call the query waits for rejects for good: the fetch ends in
\* the error status, with the data as it was
FetchFails ==
  \E r \in net :
    /\ r.id = active
    /\ net' = net \ {r}
    /\ active' = 0
    /\ status' = "error"
    /\ fetchStatus' = "idle"
    /\ direction' = "none"
    /\ building' = [pages |-> <<>>, pageParams |-> <<>>, remaining |-> 0]
    /\ UNCHANGED <<list, account, data, issued, lastReq, lastDropped,
                   svcVars, botVars, amtVars>>

ListNext ==
  \/ AccountChanges
  \/ FetchAll
  \/ ClickLoadMore
  \/ PageArrives
  \/ FetchRetries
  \/ FetchFails

BetListInit == SvcInit /\ BotInit /\ AmtIdle /\ ListInit

SpecList == BetListInit /\ [][ListNext]_vars

(***************************************************************************)
(* Properties                                                              *)
(***************************************************************************)
FormatMsg == ErrorMsg("formatBet")

ReadsOf(item) == item.ops[4].v

\* C1 as stated: whenever one of the three chain reads or one of the three
\* alias lookups of formatBet failed, formatBet returned no FormattedBet.
C1_NoBetAfterAnyFailure ==
  (fn = "formatBet" /\ result.st = "resolved") =>
    /\ failed = {}
    /\ \A j \in 1..3 : ReadsOf(items[1])[j].status = "success"

\* C1 amended: formatBet rejects with its fixed message, and returns no
\* FormattedBet, when an alias lookup or the multi-call as a whole rejects;
\* a read that fails inside a multi-call that resolved does not reject it and
\* leaves its field undefined.
C1_RejectsWhenAnOperationRejects ==
  fn = "formatBet" =>
    /\ failed # {} => result = Rejected(FormatMsg)
    /\ result.st = "resolved" =>
         /\ failed = {}
         /\ \A k \in 1..4 : items[1].ops[k].st = "resolved"
         /\ ReadsOf(items[1])[1].status = "failure" => result.v.status = Undefined
         /\ ReadsOf(items[1])[2].status = "failure" => result.v.winner = Undefined
         /\ ReadsOf(items[1])[3].status = "failure" =>
              result.v.judgementReason = Undefined

C1_Witness ==
  /\ fn = "formatBet"
  /\ failed = {<<1, 4>>}
  /\ result = Rejected(FormatMsg)

\* C2: every public function that rejects, rejects with its own fixed
\* message, never with the message of a function it called.
C2_RejectsWithOwnMessage ==
  result.st = "rejected" => result.msg = ErrorMsg(fn)

\* The body has the shape the operation expects: data.bet a record, or
\* data.bets a record with items
WellFormedBody(rawFn, bo) ==
  /\ bo.st = "resolved"
  /\ ~Nullish(bo.v)
  /\ ~Nullish(Prop(bo.v, "data"))
  /\ ~Nullish(Prop(bo.v.data, DataField(rawFn)))
  /\ rawFn # "getRawBetFromId" => "items" \in DOMAIN bo.v.data.bets

\* C3 as stated: after a non-2xx response or a malformed body the raw
\* fetcher has rejected with its operation's fixed message.
C3_RejectsOnBadResponse ==
  (/\ http.st = "done"
   /\ http.status # 200 \/ ~WellFormedBody(RawFetcherOf(fn), http.body))
    => raw = Rejected(ErrorMsg(RawFetcherOf(fn)))

\* C3 amended: a raw fetcher rejects, with its operation's fixed message,
\* exactly when the request fails, the body does not parse, or the parsed body
\* has no data object; otherwise it resolves with data.bet / data.bets as it
\* is, whatever the HTTP status.
C3_RejectsIffNoData ==
  (raw.st \in {"resolved", "rejected"}) =>
    LET rawFn  == RawFetcherOf(fn)
        noData == \/ http.st = "failed"
                  \/ http.body.st = "rejected"
                  \/ Nullish(http.body.v)
                  \/ Nullish(Prop(http.body.v, "data"))
    IN  /\ raw.st = "rejected" <=> noData
        /\ raw.st = "rejected" => raw = Rejected(ErrorMsg(rawFn))
        /\ raw.st = "resolved" => raw.v = Prop(http.body.v.data, DataField(rawFn))

C3_Witness ==
  /\ fn = "getRawBetFromId"
  /\ http.st = "done"
  /\ http.status = 500
  /\ http.body = Resolved([errors |-> "internal error"])
  /\ raw = Rejected("Failed to get raw bet details from bet id")

\* C4: a page-level fetcher starts the formatting of every item of the page
\* together; when the formatting of an item fails the call rejects, and a
\* call that resolves holds every item of the page.
C4_PageAllOrNothing ==
  fn \in PageFns =>
    /\ (raw.st = "resolved" /\ HasItems(raw.v)) =>
         /\ Len(items) = Len(raw.v.items)
         /\ \A i \in DOMAIN items : items[i].raw = raw.v.items[i]
         /\ result.st # "rejected" => \A i \in DOMAIN items : Len(items[i].ops) = 4
    /\ (failed # {} \/ \E i \in DOMAIN items : items[i].out.st = "rejected")
         => result = Rejected(ErrorMsg(fn))
    /\ result.st = "resolved" =>
         /\ Len(result.v.items) = Len(raw.v.items)
         /\ \A i \in DOMAIN items :
              /\ items[i].out.st = "resolved"
              /\ result.v.items[i] = items[i].out.v

C4_Witness ==
  /\ fn \in PageFns
  /\ result.st = "rejected"
  /\ \E i, j \in DOMAIN items :
       items[i].out.st = "resolved" /\ items[j].out.st = "rejected"

\* C5: getRecentFormattedBets forwards its page argument unchanged to the
\* query generator, and on success returns the raw fetch's pageInfo
\* unmodified together with the formatted items.
C5_CursorAndPageInfoPassThrough ==
  fn = "getRecentFormattedBets" =>
    /\ query = [gen |-> "generateRecentBetsQuery",
                numBets |-> arg.numBets, page |-> arg.page]
    /\ result.st = "resolved" =>
         /\ "pageInfo" \in DOMAIN result.v
         /\ result.v.pageInfo = Prop(raw.v, "pageInfo")
         /\ result.v.items = [i \in DOMAIN items |-> items[i].out.v]

C5_Witness ==
  /\ fn = "getRecentFormattedBets"
  /\ arg.page = [afterCursor |-> "c1"]
  /\ query.page = [afterCursor |-> "c1"]
  /\ result.st = "resolved"
  /\ result.v.pageInfo \in PageInfos
  /\ Len(result.v.items) = 2

\* C6 as stated: the pageInfo of the result of each page-level fetcher is
\* the pageInfo of its raw fetch.
C6_PageInfoOfEveryFetcher ==
  (fn \in PageFns /\ result.st = "resolved") =>
    Prop(result.v, "pageInfo") = Prop(raw.v, "pageInfo")

\* C6 amended: the result of getRecentFormattedBets and getUserFormattedBets
\* carries the pageInfo of the raw fetch unchanged; the result of
\* getFormattedBetsFromIds carries the items alone, without pageInfo.
C6_PageInfoOfPaginatedFetchers ==
  (fn \in PageFns /\ result.st = "resolved") =>
    IF fn = "getFormattedBetsFromIds"
    THEN DOMAIN result.v = {"items"}
    ELSE /\ "pageInfo" \in DOMAIN result.v
         /\ result.v.pageInfo = Prop(raw.v, "pageInfo")

C6_Witness ==
  /\ fn = "getUserFormattedBets"
  /\ result.st = "resolved"
  /\ "pageInfo" \in DOMAIN raw.v
  /\ result.v.pageInfo = raw.v.pageInfo
  /\ Len(result.v.items) > 0

C8_ProposalOnlyForAddress ==
  LET passed == SelectSeq(requests, LAMBDA r : ~r.thrown)
  IN  /\ \A n \in DOMAIN requests :
           requests[n].thrown <=> requests[n].segment \notin GoodSegments
      /\ Len(proposals) = Len(passed)
      /\ \A n \in DOMAIN proposals :
           /\ proposals[n].to = passed[n].segment
           /\ proposals[n].functionName = "retrieveTokens"

C8_Witness ==
  /\ Len(requests) = 2
  /\ requests[1].thrown
  /\ requests[1].segment # <<>>
  /\ ~requests[2].thrown
  /\ Len(proposals) = 1
  /\ proposals[1].to = requests[2].segment

Million == Pow10(TokenDecimals)

\* The integer a decimal text denotes, as its digits without leading zeros
CanonicalDigits(text) ==
  LET t == StripLeading(text, "0") IN IF t = <<>> THEN <<"0">> ELSE t

\* d * 10^6 = a, in exact arithmetic
TimesMillionIs(d, a) ==
  IF d.e >= 0 THEN NatShl(NatMulAdd(d.m, Million, 0), d.e) = a
  ELSE NatMulAdd(d.m, Million, 0) = NatShl(a, 0 - d.e)

\* |d - a / 10^6| is at most half a unit in the last place of d
WithinHalfUlp(d, a) ==
  IF d.m = <<>> THEN a = <<>>
  ELSE LET s == d.e + Len(d.m) - SignificandBits
           k == IF s < 0 THEN 0 - s ELSE 0
           x == NatShl(NatMulAdd(d.m, Million, 0), d.e + k)
       IN  NatLeq(NatShl(NatDist(x, NatShl(a, k)), 1),
                  NatShl(NatOfInt(Million), s + k))

\* a / 10^6 is a binary fraction that fits the significand: a is a multiple
\* of 5^6 = 15625 below 2^53
FitsANumber(a) ==
  DivBits(a, 15625, 0, <<>>).r = 0 /\ Len(a) <= SignificandBits

\* C9 as stated: for an amount that is an integer in decimal text,
\* bigintAmount is that integer and amount * 10^6 = bigintAmount.
C9_AmountTimesMillionIsExact ==
  (amtOut.st = "done" /\ ~amtOut.f.threw) =>
    /\ BigIntToString(amtOut.f.bigintAmount) = CanonicalDigits(amtText)
    /\ TimesMillionIs(amtOut.f.amount, amtOut.f.bigintAmount)

\* C9 amended: bigintAmount is the raw integer exactly; amount is the
\* number nearest to integer / 10^6, within half a unit in the last place of
\* a 53-bit significand, and amount * 10^6 = bigintAmount holds whenever the
\* quotient is such a number, as for every multiple of 15625 below 2^53.
C9_AmountIsNearestNumber ==
  (amtOut.st = "done" /\ ~amtOut.f.threw) =>
    /\ BigIntToString(amtOut.f.bigintAmount) = CanonicalDigits(amtText)
    /\ ~amtOut.f.amount.nan
    /\ Len(amtOut.f.amount.m) <= SignificandBits
    /\ WithinHalfUlp(amtOut.f.amount, amtOut.f.bigintAmount)
    /\ FitsANumber(amtOut.f.bigintAmount) =>
         TimesMillionIs(amtOut.f.amount, amtOut.f.bigintAmount)

C9_Witness ==
  /\ amtText = <<"1", "5", "0", "0", "0", "0", "0">>
  /\ amtOut.st = "done"
  /\ ~amtOut.f.threw
  /\ amtOut.f.amount = [nan |-> FALSE, m |-> <<1, 1>>, e |-> -1]
  /\ amtOut.f.bigintAmount = NatOfInt(1500000)

\* C10: whatever the order in which the lookups and multi-calls settled,
\* the i-th item of a resolved page is the formatted form of the i-th raw
\* item, and each alias and chain field holds the result of the operation
\* issued for that field of that item.
C10_ItemsByPositionFieldsByName ==
  (fn \in PageFns /\ result.st = "resolved") =>
    /\ Len(result.v.items) = Len(raw.v.items)
    /\ \A i \in DOMAIN result.v.items :
         LET fb == result.v.items[i]
             rb == raw.v.items[i]
             op == items[i].ops
         IN  /\ fb.betId = NumberOf(rb.id)
             /\ fb.contractAddress = rb.contractAddress
             /\ fb.creator = rb.creator
             /\ fb.participant = rb.participant
             /\ fb.judge = rb.judge
             /\ op[1].arg = rb.creator /\ fb.creatorAlias = op[1].v
             /\ op[2].arg = rb.participant /\ fb.participantAlias = op[2].v
             /\ op[3].arg = rb.judge /\ fb.judgeAlias = op[3].v
             /\ op[4].arg = rb.contractAddress
             /\ fb.status = op[4].v[1].result
             /\ fb.winner = op[4].v[2].result
             /\ fb.judgementReason = op[4].v[3].result
             /\ fb.creatorAlias = AliasOf(rb.creator)
             /\ fb.participantAlias = AliasOf(rb.participant)
             /\ fb.judgeAlias = AliasOf(rb.judge)

C10_Witness ==
  /\ fn \in PageFns
  /\ result.st = "resolved"
  /\ Len(result.v.items) = 2
  /\ outOfOrder

\* page.pageInfo.endCursor, undefined when the page has none
EndCursorOf(page) ==
  IF "pageInfo" \in DOMAIN page /\ "endCursor" \in DOMAIN page.pageInfo
  THEN page.pageInfo.endCursor
  ELSE Undefined

AfterCursorOf(r) == r.call.page.afterCursor

\* No two queryFn calls that have not settled ask for the same cursor
NoCursorTwiceAtOnce ==
  \A r \in net : \A q \in net : AfterCursorOf(r) = AfterCursorOf(q) => r.id = q.id

\* A page other than the first is asked for with the endCursor of the page
\* before it, which has one; a next-page fetch starts from the button only
\* while no next-page fetch is running
LaterPagesFollowEndCursor ==
  /\ lastReq.pos > 1 =>
       /\ ~NoParam(EndCursorOf(lastReq.before))
       /\ AfterCursorOf(lastReq) = EndCursorOf(lastReq.before)
  /\ lastReq.kind = "next" =>
       /\ lastReq.pos > 1
       /\ ~lastReq.wasFetchingNextPage

\* C11 as stated: in both lists the first page is fetched with an empty
\* afterCursor and every later page with the endCursor of the page loaded
\* before it; Load More starts no fetch while a next-page fetch is running or
\* when the last page has no endCursor, so no cursor is asked for twice at
\* once and no fetch goes past a page without an endCursor.
C11_FirstPageAlwaysFromEmptyCursor ==
  /\ NoCursorTwiceAtOnce
  /\ lastReq.id > 0 =>
       /\ lastReq.pos = 1 => AfterCursorOf(lastReq) = ""
       /\ LaterPagesFollowEndCursor

\* C11 amended: the first page of a load or reload is fetched with an empty
\* afterCursor until maxPages has dropped a page, and from then on with the
\* endCursor of the page dropped last; every later page is fetched with the
\* endCursor of the page before it; Load More starts no fetch while a
\* next-page fetch is running or when the last page has no endCursor; no
\* cursor is asked for twice at once.
C11_CursorsFollowLoadedPages ==
  /\ NoCursorTwiceAtOnce
  /\ (ButtonShown /\ ~LoadMoreDisabled) =>
       (~isFetchingNextPage /\ ~NoParam(EndCursorOf(LastOf(data.pages))))
  /\ lastReq.id > 0 =>
       /\ lastReq.pos = 1 =>
            AfterCursorOf(lastReq) =
              IF lastDropped = JUndef THEN "" ELSE EndCursorOf(lastDropped)
       /\ LaterPagesFollowEndCursor

C11_Witness ==
  /\ list = "MyBetList"
  /\ isFetchingNextPage
  /\ ButtonShown /\ LoadMoreDisabled
  /\ Len(data.pages) = 2
  /\ lastReq.kind = "next"
  /\ lastReq.pos = 3
  /\ AfterCursorOf(lastReq) = "c2"
  /\ net = {[id |-> lastReq.id, call |-> lastReq.call]}

====
